---- MODULE Spec2Model ----
(***************************************************************************)
(* Model of lib/skyline.py (stsci_sphere): SkyLine footprints, the overlap *)
(* scans find_max_overlap / max_overlap_pair and the greedy SkyLine.mosaic *)
(* loop.                                                                   *)
(*                                                                         *)
(* The spherical geometry (lib/polygon.py, SphericalPolygon) is not part   *)
(* of the modelled sources.  A polygon is abstracted to the finite set of  *)
(* sky cells it covers; its area is the number of cells.  A polygon may be *)
(* malformed for one of the two operations the library can fail on: a      *)
(* polygon with defect "int" makes every intersection it takes part in     *)
(* raise, one with defect "uni" makes every union it takes part in raise.  *)
(*                                                                         *)
(* Spec follows one call of SkyLine.mosaic, one action per outcome of the  *)
(* seeding and of a body of its while loop.  SpecCalls applies             *)
(* find_max_overlap and max_overlap_pair to the same inputs on their own.  *)
(* Termination of the loop is stated as a bound on the number of bodies    *)
(* run (iters), a safety property.                                         *)
(***************************************************************************)
EXTENDS Integers, Sequences, FiniteSets, TLC

\* ------------------------------------------------------------------ bounds
MaxLen == 4          \* longest list of skylines handed to an operation

\* the sky cells polygons are drawn over
Cells == {"north", "south"}
Defects == {"none", "int", "uni"}

VARIABLES
    skylines,        \* the caller's list of SkyLine objects (the argument)
    debug,           \* module global SKYLINE_DEBUG
    pc,              \* position of the running call
    remaining,       \* mosaic(): local list `remaining`
    mosaic,          \* mosaic(): local `mosaic` (the returned SkyLine or None)
    out_order,       \* mosaic(): local `out_order` (included names)
    excluded,        \* mosaic(): local `excluded` (excluded names)
    iters,           \* mosaic(): number of bodies of the while loop executed
    result,          \* value returned by the operation called
    assigned         \* the list a caller assigns to SkyLine.members

vars == <<skylines, debug, pc, remaining, mosaic, out_order, excluded, iters, result,
          assigned>>

\* Python's None
None == [none |-> TRUE]

\* ------------------------------------------------- geometry (SphericalPolygon)
\* SphericalPolygon([]) : the empty polygon
EmptyPolygon == [cells |-> {}, defect |-> "none"]

\* polygon.area()
area(p) == Cardinality(p.cells)

\* self.intersection(other) raises ValueError / AssertionError
intersection_raises(p, q) == p.defect = "int" \/ q.defect = "int"

\* self.intersection(other), when it does not raise
intersection(p, q) == [cells |-> p.cells \cap q.cells, defect |-> "none"]

\* self.union(other) raises ValueError / AssertionError
union_raises(p, q) == p.defect = "uni" \/ q.defect = "uni"

\* self.union(other), when it does not raise
union(p, q) ==
    [cells  |-> p.cells \cup q.cells,
     defect |-> IF p.defect = "int" \/ q.defect = "int" THEN "int" ELSE "none"]

\* ------------------------------------------------------------ SkyLineMember
\* A member read from image number i: its file name and its polygon.  `obj`
\* is the identity of the Python object (SkyLineMember defines no __eq__).
SkyLineMember(i, cs, d) ==
    [obj |-> i, fname |-> ToString(i), ext |-> <<1>>,
     polygon |-> [cells |-> cs, defect |-> d]]

\* ------------------------------------------------------------------ SkyLine
RECURSIVE members_setter_loop(_, _)
members_setter_loop(values, acc) ==
    IF values = <<>> THEN acc
    ELSE LET v == Head(values) IN
         members_setter_loop(Tail(values),
             IF \E k \in 1..Len(acc) : acc[k] = v THEN acc ELSE Append(acc, v))

\* faulty variant: every value is appended
members_setter_keeping(values) == values

\* SkyLine.members setter: duplicates dropped, order of first addition kept
members_setter(values) == members_setter_loop(values, <<>>)

\* SkyLine(None): no members, empty polygon.  obj 0 marks an object that is
\* not an element of the caller's list.
SkyLineNone == [obj |-> 0, polygon |-> EmptyPolygon, members |-> <<>>]

\* SkyLine(fname) for image number i, held at position i of the caller's list
SkyLine(i, cs, d) ==
    LET m == SkyLineMember(i, cs, d) IN
    [obj |-> i, polygon |-> m.polygon, members |-> members_setter(<<m>>)]

\* SkyLine._rough_id
rough_id(s) == IF Len(s.members) > 0 THEN s.members[1].fname ELSE "None"

\* SkyLine.add_image raises (the union of the polygons raises)
add_image_raises(self, other) == union_raises(self.polygon, other.polygon)

\* faulty variant: the members of other come first
add_image_swapped(self, other) ==
    [obj     |-> 0,
     polygon |-> union(self.polygon, other.polygon),
     members |-> members_setter(other.members \o self.members)]

\* faulty variant: the polygons are intersected
add_image_intersecting(self, other) ==
    [obj     |-> 0,
     polygon |-> intersection(self.polygon, other.polygon),
     members |-> members_setter(self.members \o other.members)]

\* SkyLine.add_image, when it does not raise
add_image(self, other) ==
    [obj     |-> 0,
     polygon |-> union(self.polygon, other.polygon),
     members |-> members_setter(self.members \o other.members)]

\* self.intersects_poly(other)
intersects_poly(p, q) == p.cells \cap q.cells # {}

\* faulty variant: no member is filtered out of a non-empty intersection
find_members_unfiltered(self, given_members) ==
    IF Cardinality(self.polygon.cells) > 0 THEN given_members ELSE <<>>

\* SkyLine._find_members: the given members whose polygon meets self's
find_members(self, given_members) ==
    IF Cardinality(self.polygon.cells) > 0
    THEN SelectSeq(given_members, LAMBDA m : intersects_poly(self.polygon, m.polygon))
    ELSE <<>>

\* SkyLine.find_intersection raises (the intersection of the polygons raises)
find_intersection_raises(self, other) ==
    intersection_raises(self.polygon, other.polygon)

\* SkyLine.find_intersection, when it does not raise
find_intersection(self, other) ==
    LET newcls == [SkyLineNone EXCEPT
                      !.polygon = intersection(self.polygon, other.polygon)]
    IN [newcls EXCEPT
           !.members = members_setter(find_members(newcls, self.members \o other.members))]

\* ------------------------------------------------------- find_max_overlap
\* faulty variant: the except clause leaves the area of the malformed candidate
failed_overlap_area_kept(self, next_s) ==
    Cardinality(self.polygon.cells \cap next_s.polygon.cells)

\* faulty variant: >= in place of >
is_larger_or_equal(overlap_area, max_overlap_area) == overlap_area >= max_overlap_area

\* the area a candidate counts for when its intersection raised and
\* SKYLINE_DEBUG is set (overlap_area = 0.0)
failed_overlap_area(self, next_s) == 0

\* the comparison that replaces the best candidate found so far
is_larger(overlap_area, max_overlap_area) == overlap_area > max_overlap_area

\* self.intersection(next_s) raises
scan_raises(self, next_s) == intersection_raises(self.polygon, next_s.polygon)

\* overlap_area of one candidate, given that the scan goes on
overlap_area_of(self, next_s) ==
    IF scan_raises(self, next_s)
    THEN failed_overlap_area(self, next_s)
    ELSE area(intersection(self.polygon, next_s.polygon))

\* one body of the for loop; acc holds the locals max_skyline and
\* max_overlap_area, and raised once the exception left the function
scan_candidate(acc, self, next_s, dbg) ==
    IF acc.raised THEN acc
    ELSE IF scan_raises(self, next_s) /\ ~dbg
    THEN [acc EXCEPT !.raised = TRUE]
    ELSE LET overlap_area == overlap_area_of(self, next_s) IN
         IF is_larger(overlap_area, acc.max_overlap_area)
         THEN [acc EXCEPT !.max_skyline = next_s,
                          !.max_overlap_area = overlap_area]
         ELSE acc

RECURSIVE scan_loop(_, _, _, _)
scan_loop(acc, self, candidates, dbg) ==
    IF candidates = <<>> THEN acc
    ELSE scan_loop(scan_candidate(acc, self, Head(candidates), dbg),
                   self, Tail(candidates), dbg)

\* SkyLine.find_max_overlap(self, skylines) under SKYLINE_DEBUG = dbg
find_max_overlap(self, candidates, dbg) ==
    scan_loop([raised |-> FALSE, max_skyline |-> None, max_overlap_area |-> 0],
              self, candidates, dbg)

\* --------------------------------------------------------- max_overlap_pair
\* faulty variant: >= in place of >
pair_is_larger_or_equal(i_area, max_overlap_area) == i_area >= max_overlap_area

\* the tuple (s1, s2)
Pair(s1, s2) == [s1 |-> s1, s2 |-> s2]

\* the comparison that replaces the best pair found so far
pair_is_larger(i_area, max_overlap_area) == i_area > max_overlap_area

\* one body of the for loop over i; acc holds max_pair and max_overlap_area
pair_step(acc, i, list, dbg) ==
    IF acc.raised THEN acc
    ELSE LET curr_s == list[i]
             found  == find_max_overlap(curr_s, SubSeq(list, i + 1, Len(list)), dbg)
         IN IF found.raised THEN [acc EXCEPT !.raised = TRUE]
            ELSE IF pair_is_larger(found.max_overlap_area, acc.max_overlap_area)
            THEN [acc EXCEPT !.max_pair = Pair(curr_s, found.max_skyline),
                             !.max_overlap_area = found.max_overlap_area]
            ELSE acc

RECURSIVE pair_loop(_, _, _, _)
pair_loop(acc, i, list, dbg) ==
    IF i > Len(list) - 1 THEN acc
    ELSE pair_loop(pair_step(acc, i, list, dbg), i + 1, list, dbg)

\* SkyLine.max_overlap_pair(skylines) under SKYLINE_DEBUG = dbg
max_overlap_pair(list, dbg) ==
    pair_loop([raised |-> FALSE, max_pair |-> None, max_overlap_area |-> 0],
              1, list, dbg)

\* ------------------------------------------------------------------ lists
RECURSIVE list_remove(_, _)
\* list.remove(x): drops the first element equal to x (SkyLine defines no
\* __eq__, so equal means the same object)
list_remove(list, x) ==
    IF list = <<>> THEN <<>>
    ELSE IF Head(list) = x THEN Tail(list)
    ELSE <<Head(list)>> \o list_remove(Tail(list), x)

RECURSIVE rough_ids(_)
\* the names of a list of skylines, in order
rough_ids(list) ==
    IF list = <<>> THEN <<>>
    ELSE <<rough_id(Head(list))>> \o rough_ids(Tail(list))

\* ------------------------------------------------------------------ inputs
\* the SkyLine objects the caller can hold at position i of its list: one
\* built from image i (any non-empty polygon, well formed or not), or the
\* empty SkyLine(None)
Inputs(i) ==
    {SkyLine(i, cs, d) : cs \in (SUBSET Cells) \ {{}}, d \in Defects}
        \cup {[SkyLineNone EXCEPT !.obj = i]}

RECURSIVE Lists(_)
\* the lists of n distinct SkyLine objects
Lists(n) ==
    IF n = 0 THEN {<<>>}
    ELSE {Append(l, x) : l \in Lists(n - 1), x \in Inputs(n)}

Init ==
    /\ \E n \in 0..MaxLen : skylines \in Lists(n)
    /\ debug \in BOOLEAN
    /\ pc = "start"
    /\ remaining = <<>>
    /\ mosaic = None
    /\ out_order = <<>>
    /\ excluded = <<>>
    /\ iters = 0
    /\ result = None
    /\ assigned = <<>>

\* ------------------------------------------------------------------ mosaic
\* mosaic(): max_overlap_pair raised (strict mode); the exception leaves mosaic
SeedScanRaise ==
    /\ pc = "start"
    /\ max_overlap_pair(skylines, debug).raised
    /\ pc' = "raised"
    /\ UNCHANGED <<assigned, skylines, debug, remaining, mosaic, out_order, excluded, iters, result>>

\* faulty variant: the names of the input are reported as excluded
no_pair_return_excluding(starting_pair) ==
    [mosaic |-> starting_pair, out_order |-> <<>>, excluded |-> rough_ids(skylines)]

\* the value returned when starting_pair is None
no_pair_return(starting_pair) ==
    [mosaic |-> starting_pair, out_order |-> <<>>, excluded |-> <<>>]

\* mosaic(): starting_pair is None, return
SeedNone ==
    /\ pc = "start"
    /\ LET p == max_overlap_pair(skylines, debug) IN
       /\ ~p.raised
       /\ p.max_pair = None
       /\ LET r == no_pair_return(p.max_pair) IN
          /\ mosaic' = r.mosaic
          /\ out_order' = r.out_order
          /\ excluded' = r.excluded
    /\ pc' = "done"
    /\ UNCHANGED <<assigned, skylines, debug, remaining, iters, result>>

\* faulty variant: the seed union is skipped under SKYLINE_DEBUG, as the
\* union of the while body is
seed_union_caught_in_debug(dbg) == dbg

\* whether an except clause encloses mosaic = s1.add_image(s2): none does
seed_union_caught(dbg) == FALSE

\* mosaic(): s1.add_image(s2) raised; nothing catches it
SeedUnionRaise ==
    /\ pc = "start"
    /\ LET p == max_overlap_pair(skylines, debug) IN
       /\ ~p.raised
       /\ p.max_pair # None
       /\ add_image_raises(p.max_pair.s1, p.max_pair.s2)
    /\ pc' = IF seed_union_caught(debug) THEN "done" ELSE "raised"
    /\ UNCHANGED <<assigned, skylines, debug, remaining, mosaic, out_order, excluded, iters, result>>

\* faulty variant: only the first seed is recorded
seed_out_order_first(s1, s2) == <<rough_id(s1)>>

\* out_order after seeding
seed_out_order(s1, s2) == <<rough_id(s1), rough_id(s2)>>

\* faulty variant: only the first seed leaves the pool
seed_remaining_first(list, s1, s2) == list_remove(list, s1)

\* remaining after seeding
seed_remaining(list, s1, s2) == list_remove(list_remove(list, s1), s2)

\* remaining = list(skylines): the pool is a new list with the same elements
pool_copy(list) == list

\* faulty variant: remaining is the caller's list itself, so the two removals
\* reach the caller
caller_list_aliased(list, s1, s2) == list_remove(list_remove(list, s1), s2)

\* the caller's list after the two seeds were removed from the pool: the pool
\* is a copy, the caller's list is as it was
caller_list(list, s1, s2) == list

\* mosaic(): the starting pair is united and taken out of the pool
SeedPair ==
    /\ pc = "start"
    /\ LET p == max_overlap_pair(skylines, debug) IN
       /\ ~p.raised
       /\ p.max_pair # None
       /\ LET s1 == p.max_pair.s1
              s2 == p.max_pair.s2
          IN /\ ~add_image_raises(s1, s2)
             /\ mosaic' = add_image(s1, s2)
             /\ out_order' = seed_out_order(s1, s2)
             /\ remaining' = seed_remaining(pool_copy(skylines), s1, s2)
             /\ skylines' = caller_list(skylines, s1, s2)
    /\ pc' = "growing"
    /\ UNCHANGED <<assigned, debug, excluded, iters, result>>

RECURSIVE first_overlap(_, _, _)
\* faulty variant: the first candidate that overlaps, not the one that overlaps most
first_overlap(mos, pool, dbg) ==
    IF pool = <<>> THEN find_max_overlap(mos, pool, dbg)
    ELSE LET f == find_max_overlap(mos, <<Head(pool)>>, dbg) IN
         IF f.raised \/ f.max_skyline # None THEN f
         ELSE first_overlap(mos, Tail(pool), dbg)

\* faulty variant: the overlap is sought with the first image of the mosaic
first_image_overlap(mos, pool, dbg) ==
    find_max_overlap([mos EXCEPT !.polygon = mos.members[1].polygon], pool, dbg)

\* next_skyline, i_area = mosaic.find_max_overlap(remaining)
next_overlap(mos, pool, dbg) == find_max_overlap(mos, pool, dbg)

\* faulty variant: only the first remaining name is excluded
exclude_first(excl, pool) == Append(excl, rough_id(Head(pool)))

\* excluded after the for loop of the no-overlap branch
exclude_all(excl, pool) == excl \o rough_ids(pool)

\* while body: next_skyline is None; every remaining name is excluded, break
GrowNoOverlap ==
    /\ pc = "growing"
    /\ Len(remaining) > 0
    /\ LET f == next_overlap(mosaic, remaining, debug) IN
       /\ ~f.raised
       /\ f.max_skyline = None
    /\ excluded' = exclude_all(excluded, remaining)
    /\ iters' = iters + 1
    /\ pc' = "done"
    /\ UNCHANGED <<assigned, skylines, debug, remaining, mosaic, out_order, result>>

\* faulty variant: no finally clause, next_skyline stays in the pool
pool_kept(pool, next_skyline) == pool

\* the pool after the finally clause
pool_after(pool, next_skyline) == list_remove(pool, next_skyline)

\* while body: the union succeeded (else clause, then finally)
GrowAdd ==
    /\ pc = "growing"
    /\ Len(remaining) > 0
    /\ LET f == next_overlap(mosaic, remaining, debug) IN
       /\ ~f.raised
       /\ f.max_skyline # None
       /\ ~add_image_raises(mosaic, f.max_skyline)
       /\ mosaic' = add_image(mosaic, f.max_skyline)
       /\ out_order' = Append(out_order, rough_id(f.max_skyline))
       /\ remaining' = pool_after(remaining, f.max_skyline)
    /\ iters' = iters + 1
    /\ UNCHANGED <<assigned, skylines, debug, pc, excluded, result>>

\* faulty variant: the skipped name is recorded as included
skip_update_included(mos, incl, excl, next_skyline) ==
    [mosaic |-> mos, out_order |-> Append(incl, rough_id(next_skyline)),
     excluded |-> excl]

\* faulty variant: the members of the skipped skyline reach the mosaic
skip_update_merged(mos, incl, excl, next_skyline) ==
    [mosaic |-> [mos EXCEPT !.members = members_setter(mos.members \o next_skyline.members)],
     out_order |-> incl,
     excluded |-> Append(excl, rough_id(next_skyline))]

\* the state the except clause leaves under SKYLINE_DEBUG
skip_update(mos, incl, excl, next_skyline) ==
    [mosaic |-> mos, out_order |-> incl,
     excluded |-> Append(excl, rough_id(next_skyline))]

\* while body: the union raised and SKYLINE_DEBUG is set (except, then finally)
GrowSkip ==
    /\ pc = "growing"
    /\ Len(remaining) > 0
    /\ debug
    /\ LET f == next_overlap(mosaic, remaining, debug) IN
       /\ ~f.raised
       /\ f.max_skyline # None
       /\ add_image_raises(mosaic, f.max_skyline)
       /\ LET u == skip_update(mosaic, out_order, excluded, f.max_skyline) IN
          /\ mosaic' = u.mosaic
          /\ out_order' = u.out_order
          /\ excluded' = u.excluded
       /\ remaining' = pool_after(remaining, f.max_skyline)
    /\ iters' = iters + 1
    /\ UNCHANGED <<assigned, skylines, debug, pc, result>>

\* the while body raises: find_max_overlap re-raised, or the union raised
\* with SKYLINE_DEBUG off
body_raises(mos, pool, dbg) ==
    LET f == next_overlap(mos, pool, dbg) IN
    IF f.raised THEN TRUE
    ELSE IF f.max_skyline = None THEN FALSE
    ELSE add_image_raises(mos, f.max_skyline) /\ ~dbg

\* while body: the exception leaves mosaic(); when it comes from the union
\* the finally clause has removed next_skyline first
GrowRaise ==
    /\ pc = "growing"
    /\ Len(remaining) > 0
    /\ body_raises(mosaic, remaining, debug)
    /\ LET f == next_overlap(mosaic, remaining, debug) IN
       remaining' = IF f.raised THEN remaining
                    ELSE pool_after(remaining, f.max_skyline)
    /\ iters' = iters + 1
    /\ pc' = "raised"
    /\ UNCHANGED <<assigned, skylines, debug, mosaic, out_order, excluded, result>>

\* the while condition fails: return mosaic, out_order, excluded
Return ==
    /\ pc = "growing"
    /\ Len(remaining) = 0
    /\ pc' = "done"
    /\ UNCHANGED <<assigned, skylines, debug, remaining, mosaic, out_order, excluded, iters, result>>

Next ==
    \/ SeedScanRaise
    \/ SeedNone
    \/ SeedUnionRaise
    \/ SeedPair
    \/ GrowNoOverlap
    \/ GrowAdd
    \/ GrowSkip
    \/ GrowRaise
    \/ Return

Spec == Init /\ [][Next]_vars

\* ------------------------------------------- the scans called on their own
\* the tuple (max_skyline, max_overlap_area)
Found(s, a) == [max_skyline |-> s, max_overlap_area |-> a]

\* skylines[1].find_max_overlap(skylines[2:]) returns
FindReturn ==
    /\ pc = "start"
    /\ Len(skylines) > 0
    /\ LET f == find_max_overlap(Head(skylines), Tail(skylines), debug) IN
       /\ ~f.raised
       /\ result' = Found(f.max_skyline, f.max_overlap_area)
    /\ pc' = "find_returned"
    /\ UNCHANGED <<assigned, skylines, debug, remaining, mosaic, out_order, excluded, iters>>

\* skylines[1].find_max_overlap(skylines[2:]) raises
FindRaise ==
    /\ pc = "start"
    /\ Len(skylines) > 0
    /\ find_max_overlap(Head(skylines), Tail(skylines), debug).raised
    /\ pc' = "find_raised"
    /\ UNCHANGED <<assigned, skylines, debug, remaining, mosaic, out_order, excluded, iters, result>>

\* SkyLine.max_overlap_pair(skylines) returns
PairReturn ==
    /\ pc = "start"
    /\ LET p == max_overlap_pair(skylines, debug) IN
       /\ ~p.raised
       /\ result' = p.max_pair
    /\ pc' = "pair_returned"
    /\ UNCHANGED <<assigned, skylines, debug, remaining, mosaic, out_order, excluded, iters>>

\* SkyLine.max_overlap_pair(skylines) raises
PairRaise ==
    /\ pc = "start"
    /\ max_overlap_pair(skylines, debug).raised
    /\ pc' = "pair_raised"
    /\ UNCHANGED <<assigned, skylines, debug, remaining, mosaic, out_order, excluded, iters, result>>

NextCalls ==
    \/ FindReturn
    \/ FindRaise
    \/ PairReturn
    \/ PairRaise

SpecCalls == Init /\ [][NextCalls]_vars

\* ------------------------------------- union, intersection, members setter
MaxChain == 2        \* most images united into an operand of an operation

\* Four SkyLineMember objects a caller holds: object k was read from file
\* MemberFiles[k], so that objects 1 and 2 are two reads of the same file.
MemberFiles == <<1, 1, 2, 3>>

\* the member objects, given the cells the polygon of each file covers
PoolMembers(cover) ==
    [k \in 1..Len(MemberFiles) |->
        [SkyLineMember(MemberFiles[k], cover[MemberFiles[k]], "none") EXCEPT !.obj = k]]

\* the SkyLine built around member m by SkyLine.__init__
Image(m) == [obj |-> 0, polygon |-> m.polygon, members |-> members_setter(<<m>>)]

RECURSIVE Chain(_)
\* the SkyLine a caller gets by uniting the images of the members ms in turn
Chain(ms) ==
    IF ms = <<>> THEN SkyLineNone
    ELSE IF Len(ms) = 1 THEN Image(ms[1])
    ELSE add_image(Chain(SubSeq(ms, 1, Len(ms) - 1)), Image(ms[Len(ms)]))

RECURSIVE Arrangements(_, _)
\* the sequences of at most n different elements of the set S
Arrangements(S, n) ==
    IF n = 0 THEN {<<>>}
    ELSE LET shorter == Arrangements(S, n - 1) IN
         shorter \cup UNION {{Append(q, x) : x \in S \ {q[k] : k \in DOMAIN q}} :
                                q \in shorter}

RECURSIVE Tuples(_, _)
\* the sequences of at most n elements of the set S
Tuples(S, n) ==
    IF n = 0 THEN {<<>>}
    ELSE LET shorter == Tuples(S, n - 1) IN
         shorter \cup {Append(q, x) : q \in shorter, x \in S}

\* the covers: the cells the polygon of each file covers
Covers == [1..3 -> (SUBSET Cells) \ {{}}]

\* two operands of an operation, each the union of at most MaxChain images
InitOps ==
    /\ \E cover \in Covers :
          LET pool == PoolMembers(cover)
              ops  == {Chain(q) : q \in Arrangements({pool[k] : k \in DOMAIN pool}, MaxChain)}
          IN \E a \in ops, b \in ops :
                skylines = <<[a EXCEPT !.obj = 1], [b EXCEPT !.obj = 2]>>
    /\ assigned = <<>>
    /\ debug = TRUE
    /\ pc = "start"
    /\ remaining = <<>>
    /\ mosaic = None
    /\ out_order = <<>>
    /\ excluded = <<>>
    /\ iters = 0
    /\ result = None

\* a new SkyLine(None) and a list of members to assign to its members
InitAssign ==
    /\ \E cover \in Covers :
          LET pool == PoolMembers(cover) IN
          assigned \in Tuples({pool[k] : k \in DOMAIN pool}, MaxLen)
    /\ skylines = <<[SkyLineNone EXCEPT !.obj = 1]>>
    /\ debug = TRUE
    /\ pc = "assign"
    /\ remaining = <<>>
    /\ mosaic = None
    /\ out_order = <<>>
    /\ excluded = <<>>
    /\ iters = 0
    /\ result = None

\* skylines[1].add_image(skylines[2]) returns
AddImageCall ==
    /\ pc = "start"
    /\ Len(skylines) >= 2
    /\ ~add_image_raises(skylines[1], skylines[2])
    /\ result' = add_image(skylines[1], skylines[2])
    /\ pc' = "add_image_returned"
    /\ UNCHANGED <<assigned, skylines, debug, remaining, mosaic, out_order, excluded, iters>>

\* skylines[1].find_intersection(skylines[2]) returns
FindIntersectionCall ==
    /\ pc = "start"
    /\ Len(skylines) >= 2
    /\ ~find_intersection_raises(skylines[1], skylines[2])
    /\ result' = find_intersection(skylines[1], skylines[2])
    /\ pc' = "find_intersection_returned"
    /\ UNCHANGED <<assigned, skylines, debug, remaining, mosaic, out_order, excluded, iters>>

\* skylines[1].members = assigned
MembersAssign ==
    /\ pc = "assign"
    /\ skylines' = [skylines EXCEPT ![1].members = members_setter(assigned)]
    /\ pc' = "assigned"
    /\ UNCHANGED <<assigned, debug, remaining, mosaic, out_order, excluded, iters, result>>

NextOps ==
    \/ AddImageCall
    \/ FindIntersectionCall
    \/ MembersAssign

\* the objects a caller holds before an operation on SkyLine objects
InitObjects == InitOps \/ InitAssign

SpecOps == InitObjects /\ [][NextOps]_vars

\* every operation of SkyLine that takes SkyLine objects, on every input
InitInputs == Init \/ InitOps

NextAll ==
    \/ Next
    \/ NextCalls
    \/ AddImageCall
    \/ FindIntersectionCall

SpecAll == InitInputs /\ [][NextAll]_vars

\* ============================================================ properties
\* The notions the properties are stated in, read off the polygons directly.
\* The intersection of a and b can be computed (does not raise)
Computable(a, b) == a.polygon.defect # "int" /\ b.polygon.defect # "int"

\* the area a and b have in common
Overlap(a, b) == Cardinality(a.polygon.cells \cap b.polygon.cells)

\* a and b have a positive overlap area that can be computed
Overlaps(a, b) == Computable(a, b) /\ Overlap(a, b) > 0

\* the index of the candidate with the greatest positive overlap with self,
\* the first such candidate on ties; 0 when no candidate overlaps self
BestIndex(self, cands) ==
    LET pos == {k \in 1..Len(cands) : Overlaps(self, cands[k])} IN
    IF pos = {} THEN 0
    ELSE CHOOSE k \in pos :
           /\ \A j \in pos : Overlap(self, cands[j]) <= Overlap(self, cands[k])
           /\ \A j \in pos : j < k => Overlap(self, cands[j]) < Overlap(self, cands[k])

\* C8: find_max_overlap returns the candidate with the largest positive
\* overlap area with self, the first one reaching that area on ties, and that
\* area; it returns (None, 0.0) exactly when no candidate has a positive
\* overlap; a returned candidate is an element of the list with area > 0.
C8_FindBest ==
    pc = "find_returned" =>
        LET self  == Head(skylines)
            cands == Tail(skylines)
            pos   == {k \in 1..Len(cands) : Overlaps(self, cands[k])}
        IN /\ (result = Found(None, 0)) <=> (pos = {})
           /\ pos # {} =>
                \E k \in pos :
                   /\ result = Found(cands[k], Overlap(self, cands[k]))
                   /\ result.max_overlap_area > 0
                   /\ \A j \in pos : Overlap(self, cands[j]) <= result.max_overlap_area
                   /\ \A j \in pos : j < k => Overlap(self, cands[j]) < result.max_overlap_area

\* C8 witness: overlap areas [2, 2, 1]; the first candidate of area 2 is returned
C8_Witness ==
    /\ pc = "find_returned"
    /\ Len(skylines) = 4
    /\ result = Found(skylines[2], 2)
    /\ Overlaps(skylines[1], skylines[3]) /\ Overlap(skylines[1], skylines[3]) = 2
    /\ Overlaps(skylines[1], skylines[4]) /\ Overlap(skylines[1], skylines[4]) = 1

\* the pairs i < j of the list with a positive overlap
OverlappingPairs(list) ==
    {ij \in (1..Len(list)) \X (1..Len(list)) :
        ij[1] < ij[2] /\ Overlaps(list[ij[1]], list[ij[2]])}

\* ij comes before ab in lexicographic order, or is ab
LexLeq(ij, ab) == ij[1] < ab[1] \/ (ij[1] = ab[1] /\ ij[2] <= ab[2])

\* C9: max_overlap_pair returns (skylines[i], skylines[j]), i < j, of maximum
\* overlap area over all pairs, the lexicographically first (i, j) on ties,
\* and None if and only if every pairwise overlap is zero.
C9_BestPair ==
    pc = "pair_returned" =>
        LET pairs == OverlappingPairs(skylines) IN
        /\ (result = None) <=> (pairs = {})
        /\ pairs # {} =>
             \E ij \in pairs :
                /\ result = Pair(skylines[ij[1]], skylines[ij[2]])
                /\ \A ab \in pairs :
                      /\ Overlap(skylines[ab[1]], skylines[ab[2]])
                            <= Overlap(skylines[ij[1]], skylines[ij[2]])
                      /\ Overlap(skylines[ab[1]], skylines[ab[2]])
                            = Overlap(skylines[ij[1]], skylines[ij[2]])
                         => LexLeq(ij, ab)

\* C9 witness: pair (1,2) overlaps by 1, pairs (2,3) and (2,4) by 2; (2,3) wins
C9_Witness ==
    /\ pc = "pair_returned"
    /\ Len(skylines) = 4
    /\ result = Pair(skylines[2], skylines[3])
    /\ Overlaps(skylines[1], skylines[2]) /\ Overlap(skylines[1], skylines[2]) = 1
    /\ Overlaps(skylines[2], skylines[4]) /\ Overlap(skylines[2], skylines[4]) = 2

\* the candidates whose intersection with self does not raise, in order
WellFormedFor(self, cands) == SelectSeq(cands, LAMBDA c : Computable(self, c))

\* C10: when an intersection raises in find_max_overlap: under SKYLINE_DEBUG
\* the candidate is never returned and the result is the result of scanning
\* the list without the failing candidates; otherwise the call raises and
\* returns nothing.
C10_FailedCandidate ==
    pc \in {"find_returned", "find_raised"} =>
        LET self    == Head(skylines)
            cands   == Tail(skylines)
            failing == {k \in 1..Len(cands) : ~Computable(self, cands[k])}
        IN IF debug
           THEN /\ pc = "find_returned"
                /\ \A k \in failing : result.max_skyline # cands[k]
                /\ LET g == find_max_overlap(self, WellFormedFor(self, cands), debug)
                   IN result = Found(g.max_skyline, g.max_overlap_area)
           ELSE /\ (pc = "find_raised") <=> (failing # {})
                /\ pc = "find_raised" => result = None

\* C10 witness: the first candidate covers self but is malformed; the scan
\* went on and returned the second candidate with its area of 1
C10_Witness ==
    /\ pc = "find_returned"
    /\ debug
    /\ Len(skylines) = 3
    /\ skylines[2].polygon.defect = "int"
    /\ Overlap(skylines[1], skylines[2]) = 2
    /\ result = Found(skylines[3], 1)

\* ------------------------------------------------------ mosaic properties
\* the skylines of the list other than those at positions i and j, in order
Others(list, i, j) == SelectSeq(list, LAMBDA s : s.obj \notin {i, j})

\* the name of the image at position i
NameOf(i) == skylines[i].members[1].fname

\* the elements of a sequence
Range(seq) == {seq[k] : k \in 1..Len(seq)}

\* (i, j) is the pair of maximum overlap, the lexicographically first on ties
IsBestPair(list, ij) ==
    /\ ij \in OverlappingPairs(list)
    /\ \A ab \in OverlappingPairs(list) :
          /\ Overlap(list[ab[1]], list[ab[2]]) <= Overlap(list[ij[1]], list[ij[2]])
          /\ Overlap(list[ab[1]], list[ab[2]]) = Overlap(list[ij[1]], list[ij[2]])
             => LexLeq(ij, ab)

\* C1: every body of the while loop that does not end the loop takes exactly
\* one skyline out of the pool, whether the union succeeded or failed, and
\* the loop runs at most n-2 bodies after seeding.
C1_PoolShrinks ==
    [][(pc = "growing" /\ iters' = iters + 1) =>
          /\ iters' <= Len(skylines) - 2
          /\ pc' = "growing" =>
                /\ Len(remaining') = Len(remaining) - 1
                /\ \E k \in 1..Len(remaining) :
                      remaining' = SubSeq(remaining, 1, k - 1)
                                      \o SubSeq(remaining, k + 1, Len(remaining))
      ]_vars

\* C1 witness: four skylines, two bodies ran (one union succeeded, one
\* failed) and the pool is empty
C1_Witness ==
    /\ pc = "growing"
    /\ Len(skylines) = 4
    /\ iters = 2
    /\ Len(out_order) = 3
    /\ Len(excluded) = 1
    /\ remaining = <<>>

\* C2: after seeding the mosaic is the union of the pair of largest pairwise
\* overlap, out_order holds exactly the names of that pair in the order
\* (s1, s2), and neither seed is left in the pool.
C2_Seeding ==
    (pc = "growing" /\ iters = 0) =>
        \E ij \in OverlappingPairs(skylines) :
           /\ IsBestPair(skylines, ij)
           /\ mosaic.polygon.cells =
                 skylines[ij[1]].polygon.cells \cup skylines[ij[2]].polygon.cells
           /\ mosaic.members = skylines[ij[1]].members \o skylines[ij[2]].members
           /\ out_order = <<NameOf(ij[1]), NameOf(ij[2])>>
           /\ remaining = Others(skylines, ij[1], ij[2])
           /\ skylines[ij[1]] \notin Range(remaining)
           /\ skylines[ij[2]] \notin Range(remaining)

\* C2 witness: the seeds are the skylines 2 and 4 of four; 1 and 3 are left
C2_Witness ==
    /\ pc = "growing"
    /\ iters = 0
    /\ Len(skylines) = 4
    /\ out_order = <<"2", "4">>
    /\ remaining = <<skylines[1], skylines[3]>>
    /\ Overlaps(skylines[1], skylines[2])

\* C3: every body of the while loop selects the skyline of the pool with the
\* greatest positive overlap with the current mosaic, the first in pool order
\* on ties; names are appended to out_order in the order of the unions that
\* succeeded; the loop is left by break only when no skyline of the pool
\* overlaps the current mosaic.
C3_GreedyGrowth ==
    [][(pc = "growing" /\ iters' = iters + 1) =>
          LET k == BestIndex(mosaic, remaining) IN
          /\ (pc' = "done") <=> (k = 0)
          /\ k = 0 => out_order' = out_order /\ mosaic' = mosaic
          /\ (k # 0 /\ out_order' # out_order) =>
                /\ out_order' = Append(out_order, rough_id(remaining[k]))
                /\ mosaic'.polygon.cells =
                      mosaic.polygon.cells \cup remaining[k].polygon.cells
                /\ remaining' = SubSeq(remaining, 1, k - 1)
                                   \o SubSeq(remaining, k + 1, Len(remaining))
          /\ (k # 0 /\ pc' = "growing" /\ out_order' = out_order) =>
                /\ mosaic' = mosaic
                /\ remaining[k].polygon.defect = "uni"
      ]_vars

\* C3 witness: seeds 1 and 2; skyline 4 was attached before skyline 3, which
\* overlaps the mosaic too but by less
C3_Witness ==
    /\ pc = "growing"
    /\ Len(skylines) = 4
    /\ out_order = <<"1", "2", "4">>
    /\ remaining = <<skylines[3]>>
    /\ excluded = <<>>
    /\ Overlaps(skylines[3], skylines[1])
    /\ Cardinality(skylines[3].polygon.cells
                      \cap (skylines[1].polygon.cells \cup skylines[2].polygon.cells))
          < Cardinality(skylines[4].polygon.cells
                      \cap (skylines[1].polygon.cells \cup skylines[2].polygon.cells))

\* C4: when no pair of the input overlaps (lists of length 0 and 1 included)
\* and mosaic() returns, it returns from seeding: no mosaic (None), an empty
\* out_order and an empty excluded, and the loop did not run.
C4_NoPair ==
    (pc \in {"growing", "done"} /\ OverlappingPairs(skylines) = {}) =>
        /\ pc = "done"
        /\ mosaic = None
        /\ out_order = <<>>
        /\ excluded = <<>>
        /\ remaining = <<>>
        /\ iters = 0

\* C4 witness: three images, no two of which overlap, and mosaic() returned
C4_Witness ==
    /\ pc = "done"
    /\ mosaic = None
    /\ Len(skylines) = 3
    /\ \A i \in 1..3 : skylines[i].members # <<>>
    /\ skylines[1].polygon.defect = "none"
    /\ skylines[2].polygon.defect = "none"

\* C5: when exactly one pair of the n input skylines overlaps and mosaic()
\* returns, the mosaic is the union of that pair, out_order holds the two
\* names of the pair and excluded the names of the other n-2 skylines.
C5_SinglePair ==
    (pc = "done" /\ Cardinality(OverlappingPairs(skylines)) = 1) =>
        \E ij \in OverlappingPairs(skylines) :
           /\ mosaic # None
           /\ mosaic.polygon.cells =
                 skylines[ij[1]].polygon.cells \cup skylines[ij[2]].polygon.cells
           /\ mosaic.members = skylines[ij[1]].members \o skylines[ij[2]].members
           /\ out_order = <<NameOf(ij[1]), NameOf(ij[2])>>
           /\ Len(excluded) = Len(skylines) - 2
           /\ excluded = rough_ids(Others(skylines, ij[1], ij[2]))

\* C5 witness: four images of which only 2 and 3 overlap; 1 and 4 are excluded
C5_Witness ==
    /\ pc = "done"
    /\ Len(skylines) = 4
    /\ OverlappingPairs(skylines) = {<<2, 3>>}
    /\ out_order = <<"2", "3">>
    /\ excluded = <<"1", "4">>

\* C6: when the union of the while body raises: under SKYLINE_DEBUG the name
\* of the skyline goes to excluded and not to out_order, the mosaic is
\* unchanged, the skyline leaves the pool and the loop goes on; otherwise the
\* exception leaves mosaic(), which returns nothing.
C6_FailedUnion ==
    [][(/\ pc = "growing"
        /\ iters' = iters + 1
        /\ BestIndex(mosaic, remaining) # 0
        /\ \/ mosaic.polygon.defect = "uni"
           \/ remaining[BestIndex(mosaic, remaining)].polygon.defect = "uni") =>
          LET k == BestIndex(mosaic, remaining) IN
          IF debug
          THEN /\ excluded' = Append(excluded, rough_id(remaining[k]))
               /\ out_order' = out_order
               /\ rough_id(remaining[k]) \notin Range(out_order')
               /\ mosaic' = mosaic
               /\ remaining' = SubSeq(remaining, 1, k - 1)
                                  \o SubSeq(remaining, k + 1, Len(remaining))
               /\ pc' = "growing"
          ELSE /\ pc' = "raised"
               /\ excluded' = excluded
               /\ out_order' = out_order
      ]_vars

\* C6 witness: the union with skyline 3 failed; it is excluded, the mosaic of
\* the seeds 1 and 2 stands and skyline 4 is still to be tried
C6_Witness ==
    /\ pc = "growing"
    /\ debug
    /\ Len(skylines) = 4
    /\ iters = 1
    /\ out_order = <<"1", "2">>
    /\ excluded = <<"3">>
    /\ remaining = <<skylines[4]>>
    /\ Overlaps(skylines[3], skylines[1])
    /\ Overlaps(skylines[4], skylines[1])

\* C7: every name in the excluded list returned by mosaic() is the name of a
\* skyline that has no overlap with the returned mosaic.
C7_ExcludedDisjoint ==
    (pc = "done" /\ mosaic # None) =>
        \A i \in 1..Len(skylines) :
           (rough_id(skylines[i]) \in Range(excluded) /\ Computable(skylines[i], mosaic))
              => Overlap(skylines[i], mosaic) = 0

\* ---------------------------------------------- properties of the operations
RECURSIVE KeepFirsts(_)
\* seq without the elements that occurred earlier in it (the same object)
KeepFirsts(seq) ==
    IF seq = <<>> THEN <<>>
    ELSE LET front == SubSeq(seq, 1, Len(seq) - 1)
             last  == seq[Len(seq)]
         IN IF \E k \in 1..Len(front) : front[k] = last
            THEN KeepFirsts(front)
            ELSE Append(KeepFirsts(front), last)

\* no object occurs twice in seq
NoRepeat(seq) == \A j, k \in 1..Len(seq) : seq[j] = seq[k] => j = k

\* C11: add_image returns a new SkyLine whose polygon is the union of the two
\* polygons and whose members are self's members followed by other's, each
\* member kept where it first occurs; the list is not sorted.
C11_UnionMembers ==
    pc = "add_image_returned" =>
        LET self == skylines[1]
            other == skylines[2]
        IN /\ result.polygon.cells = self.polygon.cells \cup other.polygon.cells
           /\ result.members = KeepFirsts(self.members \o other.members)
           /\ \A k \in 1..Len(self.members) : result.members[k] = self.members[k]

\* C11 witness: [m3, m1] united with [m1, m4] gives [m3, m1, m4]
C11_Witness ==
    /\ pc = "add_image_returned"
    /\ Len(skylines[1].members) = 2
    /\ Len(skylines[2].members) = 2
    /\ skylines[1].members[1].obj = 3
    /\ skylines[1].members[2].obj = 1
    /\ skylines[2].members[1].obj = 1
    /\ skylines[2].members[2].obj = 4
    /\ Len(result.members) = 3
    /\ result.members[1].obj = 3
    /\ result.members[2].obj = 1
    /\ result.members[3].obj = 4

\* two members read from the same file and extensions, with the same polygon
same_value(m1, m2) ==
    m1.fname = m2.fname /\ m1.ext = m2.ext /\ m1.polygon = m2.polygon

\* C12: members are compared by value: two members of equal file name,
\* extensions and polygon never stand in one member list, whether they are
\* one object or two; an assignment or a union keeps the first of them.
C12_ValueDedup ==
    pc \in {"assigned", "add_image_returned"} =>
        LET ms == IF pc = "assigned" THEN skylines[1].members ELSE result.members
        IN \A j, k \in 1..Len(ms) : same_value(ms[j], ms[k]) => j = k

\* the member lists of the SkyLine objects of the state
MemberLists ==
    {skylines[k].members : k \in 1..Len(skylines)}
        \cup (IF pc \in {"add_image_returned", "find_intersection_returned"}
              THEN {result.members} ELSE {})

\* seq is sub with some elements left out
IsSubSeq(sub, seq) ==
    \E f \in [1..Len(sub) -> 1..Len(seq)] :
       /\ \A j, k \in 1..Len(sub) : j < k => f[j] < f[k]
       /\ \A k \in 1..Len(sub) : sub[k] = seq[f[k]]

\* C13: after constructions, unions, intersections and assignments no member
\* list holds a member object twice, and the members stand in the order in
\* which they first occur in the sequence the list was built from.
C13_NoDuplicates ==
    /\ \A ms \in MemberLists : NoRepeat(ms)
    /\ pc = "assigned" => skylines[1].members = KeepFirsts(assigned)
    /\ pc = "add_image_returned" =>
          result.members = KeepFirsts(skylines[1].members \o skylines[2].members)
    /\ pc = "find_intersection_returned" =>
          IsSubSeq(result.members, KeepFirsts(skylines[1].members \o skylines[2].members))

\* C13 witness: [A, B, A, C] was assigned and [A, B, C] is stored
C13_Witness ==
    /\ pc = "assigned"
    /\ Len(assigned) = 4
    /\ assigned[1] = assigned[3]
    /\ assigned[1].obj = 1 /\ assigned[2].obj = 3 /\ assigned[4].obj = 4
    /\ skylines[1].members = <<assigned[1], assigned[2], assigned[4]>>

\* C14: find_intersection returns a new SkyLine whose polygon is the
\* intersection of the two polygons and whose members are the members of
\* self followed by other's (each kept once) whose own polygon meets that
\* intersection; when the polygons do not overlap the result has the empty
\* polygon and no members.
C14_IntersectionMembers ==
    pc = "find_intersection_returned" =>
        LET self == skylines[1]
            other == skylines[2]
            common == self.polygon.cells \cap other.polygon.cells
        IN /\ result.polygon.cells = common
           /\ result.members =
                 SelectSeq(KeepFirsts(self.members \o other.members),
                           LAMBDA m : m.polygon.cells \cap common # {})
           /\ common = {} => result.polygon = EmptyPolygon /\ result.members = <<>>

\* C14 witness: self has members on both cells, other covers one cell; the
\* member on the other cell is not in the result
C14_Witness ==
    /\ pc = "find_intersection_returned"
    /\ Len(skylines[1].members) = 2
    /\ Len(skylines[2].members) = 1
    /\ Cardinality(skylines[1].polygon.cells) = 2
    /\ Cardinality(skylines[2].polygon.cells) = 1
    /\ skylines[1].members[1].polygon.cells # skylines[2].polygon.cells
    /\ Cardinality(skylines[1].members[1].polygon.cells) = 1
    /\ result.members = <<skylines[1].members[2], skylines[2].members[1]>>

\* C16: the union of F with the empty SkyLine has a polygon of the area of
\* F's polygon and the members of F.
C16_UnionIdentity ==
    (/\ pc = "add_image_returned"
     /\ skylines[2].members = <<>>
     /\ skylines[2].polygon = EmptyPolygon) =>
        /\ Cardinality(result.polygon.cells) = Cardinality(skylines[1].polygon.cells)
        /\ result.polygon.cells = skylines[1].polygon.cells
        /\ result.members = skylines[1].members

\* C16 witness: F has two members and covers both cells
C16_Witness ==
    /\ pc = "add_image_returned"
    /\ skylines[2].members = <<>>
    /\ skylines[2].polygon = EmptyPolygon
    /\ Len(skylines[1].members) = 2
    /\ Cardinality(skylines[1].polygon.cells) = 2
    /\ result.members = skylines[1].members

\* the SkyLine objects the operation under way has returned
Returned ==
    (IF pc \in {"add_image_returned", "find_intersection_returned"}
     THEN {result} ELSE {})
    \cup (IF pc = "find_returned" /\ result.max_skyline # None
          THEN {result.max_skyline} ELSE {})
    \cup (IF pc = "pair_returned" /\ result # None
          THEN {result.s1, result.s2} ELSE {})
    \cup (IF pc \in {"growing", "done"} /\ mosaic # None THEN {mosaic} ELSE {})

\* s is a new object, none of the caller's
Fresh(s) == s.obj = 0

\* C15 (as stated): add_image, find_intersection, find_max_overlap,
\* max_overlap_pair and mosaic leave the caller's list and every SkyLine in
\* it as they were, and every SkyLine returned is a new object.
C15_AllFresh ==
    [][/\ skylines' = skylines
       /\ \A s \in Returned' : Fresh(s)]_vars

\* C15 (amended): the five operations leave the caller's list and every
\* SkyLine in it as they were; add_image, find_intersection and mosaic return
\* a new SkyLine, find_max_overlap and max_overlap_pair return SkyLine
\* objects of their input.
C15_Frame ==
    [][/\ skylines' = skylines
       /\ pc' \in {"add_image_returned", "find_intersection_returned", "growing", "done"}
             => \A s \in Returned' : Fresh(s)
       /\ pc' \in {"find_returned", "pair_returned"}
             => \A s \in Returned' :
                   \E k \in 1..Len(skylines) : s = skylines[k] /\ s.obj = k]_vars

\* C15 witness: mosaic() returned a mosaic of three skylines, which took the
\* three out of its pool, and the caller's list still holds the three
C15_Witness ==
    /\ pc = "done"
    /\ mosaic # None
    /\ Fresh(mosaic)
    /\ Len(skylines) = 3
    /\ \A k \in 1..3 : skylines[k].obj = k
    /\ Len(out_order) = 3
    /\ remaining = <<>>

\* ------------------------------------------- properties of mosaic, continued
\* how often x stands in seq
Count(seq, x) == Cardinality({k \in 1..Len(seq) : seq[k] = x})

\* seq1 and seq2 hold the same names, each as often
SameNames(seq1, seq2) ==
    /\ Len(seq1) = Len(seq2)
    /\ \A x \in Range(seq1) \cup Range(seq2) : Count(seq1, x) = Count(seq2, x)

NoDefect(list) == \A k \in 1..Len(list) : list[k].polygon.defect = "none"

RECURSIVE Component(_, _)
\* the positions of list joined to the positions ks by a chain of overlaps
Component(list, ks) ==
    LET more == ks \cup {j \in 1..Len(list) : \E k \in ks : Overlap(list[k], list[j]) > 0}
    IN IF more = ks THEN ks ELSE Component(list, more)

\* C18: when no polygon is malformed, the skylines mosaic() includes are
\* those joined to the starting pair by a chain of pairwise overlaps; every
\* other skyline is excluded, whatever it overlaps.
C18_Component ==
    (pc = "done" /\ mosaic # None /\ NoDefect(skylines)) =>
        LET comp == Component(skylines, {k \in 1..Len(skylines) :
                                            rough_id(skylines[k]) = out_order[1]})
        IN /\ Range(out_order) = {rough_id(skylines[k]) : k \in comp}
           /\ Len(out_order) = Cardinality(comp)
           /\ Len(excluded) = Len(skylines) - Cardinality(comp)
           /\ \A k \in 1..Len(skylines) \ comp : rough_id(skylines[k]) \in Range(excluded)

\* C18 witness: two skylines on one cell were united, the two on the other
\* cell overlap each other and are both excluded
C18_Witness ==
    /\ pc = "done"
    /\ mosaic # None
    /\ NoDefect(skylines)
    /\ Len(skylines) = 4
    /\ skylines[1].polygon.cells = {"north"}
    /\ skylines[2].polygon.cells = {"north"}
    /\ skylines[3].polygon.cells = {"south"}
    /\ skylines[4].polygon.cells = {"south"}
    /\ out_order = <<"1", "2">>
    /\ excluded = <<"3", "4">>

\* the skyline of the input that has the name x
Named(x) == CHOOSE s \in Range(skylines) : Len(s.members) > 0 /\ rough_id(s) = x

RECURSIVE MembersOf(_)
\* the members of the skylines named in names, list after list
MembersOf(names) ==
    IF names = <<>> THEN <<>>
    ELSE MembersOf(SubSeq(names, 1, Len(names) - 1)) \o Named(names[Len(names)]).members

\* C19: while mosaic() grows and when it returns, the members of the mosaic
\* are the members of the included skylines in the order of inclusion, each
\* kept once, and its polygon covers what the polygons of the included
\* skylines cover; an excluded skyline adds no member.
C19_MosaicContent ==
    (pc \in {"growing", "done"} /\ mosaic # None) =>
        /\ mosaic.members = KeepFirsts(MembersOf(out_order))
        /\ mosaic.polygon.cells =
              UNION {Named(out_order[k]).polygon.cells : k \in 1..Len(out_order)}
        /\ \A s \in Range(skylines) :
              (Len(s.members) > 0 /\ rough_id(s) \in Range(excluded))
              => \A k \in 1..Len(s.members) : s.members[k] \notin Range(mosaic.members)

\* C19 witness: three skylines were included, the pair (2, 3) first, and one
\* that overlaps the mosaic was skipped
C19_Witness ==
    /\ pc = "done"
    /\ mosaic # None
    /\ Len(skylines) = 4
    /\ out_order = <<"2", "3", "1">>
    /\ excluded = <<"4">>
    /\ Len(mosaic.members) = 3
    /\ mosaic.members[1].obj = 2
    /\ mosaic.members[3].obj = 1
    /\ skylines[4].polygon.cells \cap mosaic.polygon.cells # {}

\* the union of the starting pair of the list raises
SeedUnionFails ==
    LET p == max_overlap_pair(skylines, debug) IN
    /\ ~p.raised
    /\ p.max_pair # None
    /\ add_image_raises(p.max_pair.s1, p.max_pair.s2)

\* C20: a union of the starting pair that raises ends mosaic() with the
\* exception under SKYLINE_DEBUG as without it, no list being returned;
\* under SKYLINE_DEBUG nothing else ends mosaic() with an exception: a
\* failing candidate of the scan and a failing union of the while body are
\* passed over.
C20_SeedUnionPropagates ==
    [][/\ (pc = "start" /\ SeedUnionFails) =>
             /\ pc' = "raised"
             /\ mosaic' = None /\ out_order' = <<>> /\ excluded' = <<>>
       /\ (debug /\ pc' = "raised") => (pc = "start" /\ SeedUnionFails)
       /\ (debug /\ pc = "growing") => pc' \in {"growing", "done"}]_vars

\* C20 witness: under SKYLINE_DEBUG mosaic() was left by the exception of
\* the union of the starting pair
C20_Witness ==
    /\ debug
    /\ pc = "raised"
    /\ iters = 0
    /\ SeedUnionFails
    /\ mosaic = None

====
